---- MODULE Spec2Model ----
(***************************************************************************)
(* State-machine model of openwebui-content-sync: the sync manager         *)
(* (internal/sync/manager.go), the downstream client contract it consumes  *)
(* (internal/openwebui), and the scheduler/entry point                     *)
(* (internal/scheduler/scheduler.go, main.go).                             *)
(*                                                                         *)
(* Strings stand for opaque identifiers (fingerprints, artifact IDs,       *)
(* knowledge-base IDs, adapter names); "" is Go's empty string.  A path is *)
(* the sequence of its segments, so "a/README.md" is <<"a","README.md">>   *)
(* and a bare file name is a one-segment path.  Timestamps (SyncedAt,      *)
(* Modified, last_sync values) are not modelled.                           *)
(***************************************************************************)
EXTENDS Naturals, Integers, Sequences, FiniteSets, TLC

\* ------------------------------------------------------------- bounds
\* Longest output one adapter returns from FetchFiles.
MaxFiles == 1
\* Number of artifact IDs the downstream can issue (uploads that can succeed).
MaxIds == 3
\* Number of times the process is restarted.
MaxRestarts == 1
\* Number of times the upstream content of an adapter changes.
MaxEdits == 2
\* Number of calls (fetch, listing, local write, upload, attach, detach, index
\* save) that fail in one run.
MaxFaults == 1
\* Number of times the cron schedule fires.
MaxTicks == 3

\* ------------------------------------------------------------- universe
Adapters == <<"github", "local">>
NAdapters == Len(Adapters)
Hashes == {"h1", "h2"}
\* What each adapter's mappings can yield: its paths and the knowledge IDs it
\* attaches ("" for a selector mapped to no knowledge base).
AdapterPaths ==
    [github |-> {<<"a", "README.md">>, <<"GUIDE.md">>},
     local |-> {<<"b", "README.md">>, <<"GUIDE.md">>}]
AdapterKids == [github |-> {"K1", "K2"}, local |-> {"", "K1"}]
Ids == <<"f1", "f2", "f3", "f4", "f5">>
ReimportSource == "openwebui"

VARIABLES
    fileIndex,    \* m.fileIndex: key -> FileMetadata
    diskIndex,    \* contents of file_index.json
    knowledgeID,  \* m.knowledgeID, the process-wide fallback
    dsFiles,      \* downstream artifacts: id -> [name, hash, by (uploading adapter)]
    attached,     \* downstream membership: set of <<knowledge id, artifact id>>
    nextId,       \* index in Ids of the next ID the downstream issues
    dsHash,       \* whether the downstream listing exposes a content hash
    dsPath,       \* whether the downstream listing carries the stored path
    upstream,     \* adapter name -> the snapshot FetchFiles returns
    pc,           \* position of the manager's caller
    ai,           \* SyncFiles: index of the adapter being processed
    queue,        \* SyncFiles: files of the current adapter not yet synced
    present,      \* SyncFiles: currentFiles
    lastSynced,   \* adapters whose SetLastSync ran in the current cycle
    last,         \* log of the syncFile call that has just returned
    lastCleanup,  \* log of the cleanupOrphanedFiles call that has just returned
    cyc,          \* log of the current cycle
    restarts,     \* restarts so far
    faults,       \* failed calls so far
    edits,        \* upstream changes so far
    mainPc,       \* main goroutine: position in main()
    mainPhase,    \* main goroutine: phase of its SyncFiles call (0: not in one)
    schedPc,      \* goroutine of Scheduler.Start: its position
    jobs,         \* cron job goroutines inside SyncFiles: phase -> how many
    ticks,        \* schedule firings so far
    cancelled,    \* whether main's context has been cancelled
    member,       \* client: whether the downstream holds the file in the knowledge base
    rm,           \* client: log of the RemoveFileFromKnowledge call that has just returned
    w,            \* client: state of the waitForFileProcessing call
    ctxDone,      \* client: whether the context passed to the call is done
    up,           \* client: state of the UploadFile call
    sf,           \* log of the syncFile call whose UploadFile has just returned
    lp,           \* SyncFiles seen as its two loops: position and log of the calls made
    nm,           \* NewManager: the index file it finds and what it returned
    ad,           \* an adapter: its kind, its repositories or folders, what FetchFiles returned
    rt            \* state of the RetryWithBackoff call

mgrVars == <<fileIndex, diskIndex, knowledgeID, dsFiles, attached, nextId, dsHash, dsPath,
             upstream, pc, ai, queue, present, lastSynced, last, lastCleanup,
             cyc, restarts, faults, edits>>

schedVars == <<mainPc, mainPhase, schedPc, jobs, ticks, cancelled>>

clientVars == <<member, rm, w, ctxDone, up, sf>>

loopVars == <<lp>>

startVars == <<nm>>

adapterVars == <<ad>>

retryVars == <<rt>>

vars == <<mgrVars, schedVars, clientVars, loopVars, startVars, adapterVars, retryVars>>

\* ------------------------------------------------------------- helpers
EmptyMap == [k \in {} |-> 0]

Range(s) == {s[i] : i \in DOMAIN s}

\* filepath.Base on a clean path: the last segment; "." for the empty path.
Base(p) == IF Len(p) = 0 THEN <<".">> ELSE <<p[Len(p)]>>

\* delete(m, k)
MapDelete(m, k) == [x \in (DOMAIN m) \ {k} |-> m[x]]

\* m[k] = v
MapPut(m, k, v) == [x \in (DOMAIN m) \cup {k} |-> IF x = k THEN v ELSE m[x]]

Files(a) == [path : AdapterPaths[a], hash : Hashes, kid : AdapterKids[a]]

\* Outputs of adapter a: sequences of files with pairwise distinct paths.
Outputs(a) ==
    {s \in UNION {[1..n -> Files(a)] : n \in 0..MaxFiles} :
        \A i, j \in DOMAIN s : i # j => s[i].path # s[j].path}

\* ------------------------------------------------------------- syncFile
\* Variant: a fallback knowledge base that is never empty.
EffectiveKidAlwaysBound(k) == IF k = "" THEN "K1" ELSE k

\* Effective knowledge base: the file's (or entry's) own, else m.knowledgeID.
EffectiveKid(k) == IF k = "" THEN knowledgeID ELSE k

\* Lookup of the existing entry: by file name first, else any entry with the
\* file's hash (Go map iteration order: any of them may be the one found).
MatchKeys(idx, f) ==
    IF Base(f.path) \in DOMAIN idx
    THEN {Base(f.path)}
    ELSE {k \in DOMAIN idx : idx[k].hash = f.hash}

MatchReason(idx, f) == IF Base(f.path) \in DOMAIN idx THEN "filename" ELSE "hash"

\* "Check if it's the same content": the early return of syncFile.
SameContent(existing, f) == existing.hash = f.hash

\* Variant: every existing entry is treated as bound to the file's knowledge base.
SameKnowledgeBaseAlways(existing, f) == TRUE

\* "existingKnowledgeID == fileKnowledgeID", both with the fallback applied.
SameKnowledgeBase(existing, f) == EffectiveKid(existing.kid) = EffectiveKid(f.kid)

\* Variant: an update that never removes the old artifact.
NeedsDetachNever(existing, f) == FALSE

\* The old artifact is removed from the knowledge base before the upload when
\* the entry is bound to the file's knowledge base and both IDs are set.
NeedsDetach(existing, f) ==
    /\ SameKnowledgeBase(existing, f)
    /\ EffectiveKid(f.kid) # ""
    /\ existing.fileID # ""

\* Variant: the entry records the file's own knowledge ID, not the effective one.
NewEntryRawKid(f, source, id) ==
    [path |-> f.path, hash |-> f.hash, fileID |-> id, source |-> source,
     kid |-> f.kid]

\* The FileMetadata written after a successful upload.
NewEntry(f, source, id) ==
    [path |-> f.path, hash |-> f.hash, fileID |-> id, source |-> source,
     kid |-> EffectiveKid(f.kid)]

\* Outcomes of the calls one syncFile makes, chosen by the environment.
SyncOutcomes == [detach : BOOLEAN, save : BOOLEAN, upload : BOOLEAN, attach : BOOLEAN]

\* RemoveFileFromKnowledge on the downstream: a successful call removes the
\* membership; not-found (404) is reported as success and changes nothing.
DetachEffect(att, kb, id, ok) == IF ok THEN att \ {<<kb, id>>} ELSE att

\* Variant: an error return that has already written the new entry.
IndexOnErrorWritten(idx, written) == written

\* The index after a syncFile that returns an error: every error return precedes
\* the index update, so the index is the one the call started with.
IndexOnError(idx, written) == idx

\* syncFile(file, source) on index idx with existing entry key mk (NoKey when no
\* entry was found) under outcomes o.  The result holds the new index, the new
\* downstream state, the calls issued in order and whether an error is returned.
NoKey == <<>>

SyncFile(idx, att, dsf, nid, f, source, mk, o) ==
    LET exists == mk # NoKey
        existing == idx[mk]
        reason == MatchReason(idx, f)
        kid == EffectiveKid(f.kid)
        id == Ids[nid]
        name == Base(f.path)
        noop == [index |-> idx, attached |-> att, dsFiles |-> dsf, nextId |-> nid,
                 calls |-> <<>>, err |-> FALSE, skipped |-> TRUE, faults |-> 0]
        sameKb == exists /\ SameKnowledgeBase(existing, f)
        detach == exists /\ NeedsDetach(existing, f)
        detachCalls ==
            IF detach
            THEN <<[op |-> "detach", kb |-> kid, id |-> existing.fileID, ok |-> o.detach]>>
            ELSE <<>>
        att1 == IF detach THEN DetachEffect(att, kid, existing.fileID, o.detach) ELSE att
        detachFault == IF detach /\ ~o.detach THEN 1 ELSE 0
        uploadOk == o.upload
        uploadCalls == <<[op |-> "upload", kb |-> "", id |-> IF uploadOk THEN id ELSE "",
                          ok |-> uploadOk]>>
        dsf1 == MapPut(dsf, id, [name |-> name, hash |-> f.hash, by |-> source])
        attachCalls ==
            IF kid # ""
            THEN <<[op |-> "attach", kb |-> kid, id |-> id, ok |-> o.attach]>>
            ELSE <<>>
        att2 == IF kid # "" /\ o.attach THEN att1 \cup {<<kid, id>>} ELSE att1
        idx1 == IF exists /\ reason = "hash" /\ existing.path # f.path
                THEN MapDelete(idx, Base(existing.path))
                ELSE idx
        idx2 == IF ~exists \/ existing.hash # f.hash
                THEN MapPut(idx1, name, NewEntry(f, source, id))
                ELSE idx
    IN  IF exists /\ SameContent(existing, f)
        THEN noop
        ELSE IF sameKb /\ existing.source # ReimportSource /\ existing.hash = f.hash
        THEN noop
        ELSE IF ~o.save
        THEN [index |-> IndexOnError(idx, idx2), attached |-> att1, dsFiles |-> dsf, nextId |-> nid,
              calls |-> detachCalls, err |-> TRUE, skipped |-> FALSE,
              faults |-> detachFault + 1]
        ELSE IF ~uploadOk
        THEN [index |-> IndexOnError(idx, idx2), attached |-> att1, dsFiles |-> dsf, nextId |-> nid,
              calls |-> detachCalls \o uploadCalls, err |-> TRUE, skipped |-> FALSE,
              faults |-> detachFault + 1]
        ELSE IF kid # "" /\ ~o.attach
        THEN [index |-> IndexOnError(idx, idx2), attached |-> att1, dsFiles |-> dsf1,
              nextId |-> nid + 1,
              calls |-> detachCalls \o uploadCalls \o attachCalls, err |-> TRUE,
              skipped |-> FALSE, faults |-> detachFault + 1]
        ELSE [index |-> idx2, attached |-> att2, dsFiles |-> dsf1, nextId |-> nid + 1,
              calls |-> detachCalls \o uploadCalls \o attachCalls, err |-> FALSE,
              skipped |-> FALSE, faults |-> detachFault]

\* ------------------------------------------------------------- cleanupOrphanedFiles
\* Variant: an orphan test that ignores the source of the entry.
IsOrphanAnySource(idx, k, cur) ==
    /\ Base(idx[k].path) \notin cur
    /\ idx[k].fileID # ""

\* Variant: an orphan test that ignores currentFiles.
IsOrphanAnyPresence(idx, k, cur) ==
    /\ idx[k].source = ReimportSource
    /\ idx[k].fileID # ""

\* The orphan test applied to the entry under key k.
IsOrphan(idx, k, cur) ==
    /\ Base(idx[k].path) \notin cur
    /\ idx[k].source = ReimportSource
    /\ idx[k].fileID # ""

OrphanKeys(idx, cur) == {k \in DOMAIN idx : IsOrphan(idx, k, cur)}

\* Whether the removal loop calls RemoveFileFromKnowledge for the entry.
CleanupDetaches(e) == EffectiveKid(e.kid) # "" /\ e.fileID # ""

\* cleanupOrphanedFiles(currentFiles); failing is the set of orphan keys whose
\* detach call returns an error.  Every orphan is deleted from the index.
Cleanup(idx, att, cur, failing) ==
    LET orphans == OrphanKeys(idx, cur)
        called == {k \in orphans : CleanupDetaches(idx[k])}
    IN  [index |-> [k \in (DOMAIN idx) \ orphans |-> idx[k]],
         attached |-> att \ {<<EffectiveKid(idx[k].kid), idx[k].fileID>> :
                               k \in called \ failing},
         calls |-> {[op |-> "detach", kb |-> EffectiveKid(idx[k].kid),
                     id |-> idx[k].fileID, ok |-> k \notin failing] : k \in called},
         orphans |-> orphans]

\* ------------------------------------------------------------- InitializeFileIndex
\* Knowledge IDs collected at startup: the fallback plus those of the files of
\* every adapter whose fetch succeeded (okFetch).
StartupKids(okFetch) ==
    LET fallback == IF knowledgeID # "" THEN {knowledgeID} ELSE {}
        fetched == UNION {{f.kid : f \in Range(upstream[a])} : a \in okFetch}
    IN  fallback \cup (fetched \ {""})

\* Where the downstream stores an uploaded artifact: its uploads directory,
\* under the artifact ID followed by the file name.
StoredPath(id, name) == <<"uploads", id \o "_" \o name[1]>>

\* GetKnowledgeFiles(kb): one File per artifact attached to kb.  Meta.Name is
\* the uploaded file name; Path is the stored path when the listing carries it
\* and empty otherwise; Hash is set only by a downstream that exposes content
\* hashes.
Listing(kb) ==
    {[ID |-> c[2],
      Path |-> IF dsPath THEN StoredPath(c[2], dsFiles[c[2]].name) ELSE <<>>,
      Name |-> dsFiles[c[2]].name,
      Hash |-> IF dsHash THEN dsFiles[c[2]].hash ELSE "", kb |-> kb] :
        c \in {x \in attached : x[1] = kb}}

\* filePath of a listed file: its Path, or Meta.Name when the path is empty.
ListedPath(file) == IF file.Path = <<>> THEN file.Name ELSE file.Path

\* Variant: the re-import stores the listed hash as it is, empty or not.
ImportedEntryRawHash(file) ==
    [path |-> ListedPath(file), hash |-> file.Hash,
     fileID |-> file.ID, source |-> ReimportSource, kid |-> file.kb]

\* The FileMetadata the re-import builds from a listed file.
ImportedEntry(file) ==
    [path |-> ListedPath(file),
     hash |-> IF file.Hash # "" THEN file.Hash ELSE file.ID,
     fileID |-> file.ID, source |-> ReimportSource, kid |-> file.kb]

\* ------------------------------------------------------------- logs
\* last and lastCleanup describe the call that has just returned and are cleared
\* by the next step.  cyc logs the current cycle: its downstream calls, whether
\* every call so far succeeded (clean), whether every fetch did (fetched),
\* whether it is the first cycle since the start (first), and whether it follows
\* a completed clean cycle with no upstream change in between (afterClean).
\* listedOk and listFailed hold the knowledge bases whose GetKnowledgeFiles
\* succeeded and failed in the InitializeFileIndex that preceded the cycle.
NoSync == [valid |-> FALSE]
NoCleanup == [valid |-> FALSE]
NoEntry == [path |-> <<>>, hash |-> "", fileID |-> "", source |-> "", kid |-> ""]
NewCycle ==
    [uploads |-> 0, attaches |-> 0, detaches |-> 0, clean |-> TRUE, fetched |-> TRUE,
     afterClean |-> FALSE, first |-> FALSE, done |-> FALSE,
     listedOk |-> {}, listFailed |-> {}]

CountOp(calls, op) == Cardinality({i \in DOMAIN calls : calls[i].op = op})
AllOk(calls) == \A i \in DOMAIN calls : calls[i].ok

\* ------------------------------------------------------------- Init
\* A first start: no file_index.json, nothing uploaded yet.  m.knowledgeID is
\* empty unless SetKnowledgeID was called before the start.
MgrInit ==
    /\ fileIndex = EmptyMap
    /\ diskIndex = EmptyMap
    /\ knowledgeID \in {"", "K1"}
    /\ dsFiles = EmptyMap
    /\ attached = {}
    /\ nextId = 1
    /\ dsHash \in BOOLEAN
    /\ dsPath \in BOOLEAN
    /\ upstream = [a \in Range(Adapters) |-> <<>>]
    /\ pc = "boot"
    /\ ai = 0
    /\ queue = <<>>
    /\ present = {}
    /\ lastSynced = {}
    /\ last = NoSync
    /\ lastCleanup = NoCleanup
    /\ cyc = NewCycle
    /\ restarts = 0
    /\ faults = 0
    /\ edits = 0

\* ------------------------------------------------------------- environment
\* The upstream content of one adapter changes between two cycles.
UpstreamChange ==
    /\ pc \in {"boot", "idle"}
    /\ edits < MaxEdits
    /\ \E a \in Range(Adapters) :
          \E out \in Outputs(a) :
             /\ out # upstream[a]
             /\ upstream' = [upstream EXCEPT ![a] = out]
    /\ edits' = edits + 1
    /\ cyc' = NewCycle
    /\ lastCleanup' = NoCleanup
    /\ lastSynced' = {}
    /\ UNCHANGED <<fileIndex, diskIndex, knowledgeID, dsFiles, attached, nextId, dsHash, dsPath,
                   pc, ai, queue, present, last, restarts, faults>>

\* The process is stopped after a cycle and started again: NewManager loads
\* file_index.json into a fresh manager.
Restart ==
    /\ pc = "idle"
    /\ restarts < MaxRestarts
    /\ restarts' = restarts + 1
    /\ fileIndex' = diskIndex
    /\ pc' = "boot"
    /\ lastCleanup' = NoCleanup
    /\ cyc' = NewCycle
    /\ lastSynced' = {}
    /\ UNCHANGED <<diskIndex, knowledgeID, dsFiles, attached, nextId, dsHash, dsPath, upstream,
                   ai, queue, present, last, faults, edits>>

\* ------------------------------------------------------------- manager actions
\* Variant: the rebuilt entries are written over the old index, whose other
\* entries stay.
RebuiltOnto(old, pick) ==
    [k \in (DOMAIN old) \cup (DOMAIN pick) |->
        IF k \in DOMAIN pick THEN ImportedEntry(pick[k]) ELSE old[k]]

\* newFileIndex, which replaces the old index: one entry per listed key, built
\* from the file pick chooses for the key.
Rebuilt(old, pick) == [k \in DOMAIN pick |-> ImportedEntry(pick[k])]

\* InitializeFileIndex with no knowledge ID found: the index is left alone.
InitializeSkip ==
    /\ pc = "boot"
    /\ \E okFetch \in SUBSET Range(Adapters) :
          /\ StartupKids(okFetch) = {}
          /\ faults' = faults + Cardinality(Range(Adapters) \ okFetch)
    /\ faults' <= MaxFaults
    /\ pc' = "ready"
    /\ UNCHANGED <<fileIndex, diskIndex, knowledgeID, dsFiles, attached, nextId, dsHash, dsPath,
                   upstream, ai, queue, present, lastSynced, last, lastCleanup, cyc,
                   restarts, edits>>

\* InitializeFileIndex: the index is replaced by the entries rebuilt from the
\* listings that succeeded (okList); a key listed more than once keeps whichever
\* file the iteration visits last.  The index is then saved.
InitializeReplace ==
    /\ pc = "boot"
    /\ \E okFetch \in SUBSET Range(Adapters) :
          /\ StartupKids(okFetch) # {}
          /\ \E okList \in SUBSET StartupKids(okFetch), saveOk \in BOOLEAN :
                LET listed == UNION {Listing(kb) : kb \in okList}
                    keys == {ListedPath(file) : file \in listed}
                IN  \E pick \in [keys -> listed] :
                       /\ \A k \in keys : ListedPath(pick[k]) = k
                       /\ fileIndex' = Rebuilt(fileIndex, pick)
                       /\ diskIndex' = IF saveOk THEN fileIndex' ELSE diskIndex
                       /\ faults' = faults + Cardinality(Range(Adapters) \ okFetch)
                                     + Cardinality(StartupKids(okFetch) \ okList)
                                     + (IF saveOk THEN 0 ELSE 1)
                       /\ cyc' = [cyc EXCEPT
                                     !.listedOk = okList,
                                     !.listFailed = StartupKids(okFetch) \ okList]
    /\ faults' <= MaxFaults
    /\ pc' = "ready"
    /\ UNCHANGED <<knowledgeID, dsFiles, attached, nextId, dsHash, dsPath, upstream, ai, queue,
                   present, lastSynced, last, lastCleanup, restarts, edits>>

\* SyncFiles begins: ListKnowledge is called for the log only, currentFiles is
\* empty, the first adapter is next.
BeginCycle ==
    /\ pc \in {"ready", "idle"}
    /\ pc' = "adapter"
    /\ ai' = 1
    /\ present' = {}
    /\ queue' = <<>>
    /\ lastSynced' = {}
    /\ lastCleanup' = NoCleanup
    /\ cyc' = [NewCycle EXCEPT !.afterClean = cyc.done /\ cyc.clean,
                               !.first = (pc = "ready")]
    /\ UNCHANGED <<fileIndex, diskIndex, knowledgeID, dsFiles, attached, nextId, dsHash, dsPath,
                   upstream, last, restarts, faults, edits>>

\* Variant: a file counts as present only when its syncFile returned nil.
AddPresentIfSynced(cur, name, fileErr) == IF fileErr THEN cur ELSE cur \cup {name}

\* currentFiles[filename] = true, set before syncFile is called.
AddPresent(cur, name, fileErr) == cur \cup {name}

\* Variant: the last sync time is set only after a file loop without error.
SetLastSyncIfClean(synced, a, fileErr) == IF fileErr THEN synced ELSE synced \cup {a}

\* adpt.SetLastSync(time.Now()) at the end of the adapter's iteration, reached
\* whatever the syncFile calls returned.
SetLastSync(synced, a, fileErr) == synced \cup {a}

\* FetchFiles of the current adapter fails: the adapter is skipped.
FetchFail ==
    /\ pc = "adapter"
    /\ ai <= NAdapters
    /\ faults < MaxFaults
    /\ faults' = faults + 1
    /\ ai' = ai + 1
    /\ cyc' = [cyc EXCEPT !.clean = FALSE, !.fetched = FALSE]
    /\ last' = NoSync
    /\ UNCHANGED <<fileIndex, diskIndex, knowledgeID, dsFiles, attached, nextId, dsHash, dsPath,
                   upstream, pc, queue, present, lastSynced, lastCleanup, restarts, edits>>

\* FetchFiles of the current adapter returns its snapshot.  With no file to
\* sync the loop body ends here: SetLastSync, next adapter.
FetchOk ==
    /\ pc = "adapter"
    /\ ai <= NAdapters
    /\ LET out == upstream[Adapters[ai]]
       IN  IF out = <<>>
           THEN /\ lastSynced' = SetLastSync(lastSynced, Adapters[ai], FALSE)
                /\ ai' = ai + 1
                /\ UNCHANGED <<pc, queue>>
           ELSE /\ queue' = out
                /\ pc' = "files"
                /\ UNCHANGED <<ai, lastSynced>>
    /\ last' = NoSync
    /\ UNCHANGED <<fileIndex, diskIndex, knowledgeID, dsFiles, attached, nextId, dsHash, dsPath,
                   upstream, present, lastCleanup, cyc, restarts, faults, edits>>

\* One iteration of the file loop: the basename joins currentFiles, syncFile
\* runs, its error is logged.  After the last file: SetLastSync, next adapter.
SyncStep ==
    /\ pc = "files"
    /\ queue # <<>>
    /\ LET f == Head(queue)
           source == Adapters[ai]
           found == MatchKeys(fileIndex, f)
       IN  \E mk \in (IF found = {} THEN {NoKey} ELSE found), o \in SyncOutcomes :
              LET r == SyncFile(fileIndex, attached, dsFiles, nextId, f, source, mk, o)
              IN  /\ r.nextId <= MaxIds + 1
                  /\ faults + r.faults <= MaxFaults
                  /\ faults' = faults + r.faults
                  /\ fileIndex' = r.index
                  /\ attached' = r.attached
                  /\ dsFiles' = r.dsFiles
                  /\ nextId' = r.nextId
                  /\ present' = AddPresent(present, Base(f.path), r.err)
                  /\ last' = [valid |-> TRUE, f |-> f, source |-> source, mk |-> mk,
                              existing |-> IF mk = NoKey THEN NoEntry ELSE fileIndex[mk],
                              calls |-> r.calls, err |-> r.err, skipped |-> r.skipped]
                  /\ cyc' = [cyc EXCEPT
                                !.uploads = @ + CountOp(r.calls, "upload"),
                                !.attaches = @ + CountOp(r.calls, "attach"),
                                !.detaches = @ + CountOp(r.calls, "detach"),
                                !.clean = @ /\ ~r.err /\ AllOk(r.calls)]
                  /\ lastSynced' = IF Tail(queue) = <<>>
                                   THEN SetLastSync(lastSynced, source, r.err)
                                   ELSE lastSynced
    /\ queue' = Tail(queue)
    /\ IF Tail(queue) = <<>>
       THEN /\ ai' = ai + 1
            /\ pc' = "adapter"
       ELSE UNCHANGED <<ai, pc>>
    /\ UNCHANGED <<diskIndex, knowledgeID, dsHash, dsPath, upstream, lastCleanup, restarts, edits>>

\* The error SyncFiles returns (TRUE) or nil (FALSE): the errors of
\* cleanupOrphanedFiles and saveFileIndex are logged, and nil is returned.
SyncFilesErr(cleanupOk, saveOk) == FALSE

\* After the last adapter: cleanupOrphanedFiles, then saveFileIndex; SyncFiles
\* returns nil whatever the save did.
FinishCycle ==
    /\ pc = "adapter"
    /\ ai > NAdapters
    /\ \E failing \in SUBSET OrphanKeys(fileIndex, present), saveOk \in BOOLEAN :
          LET r == Cleanup(fileIndex, attached, present, failing)
          IN  /\ faults' = faults + Cardinality(failing) + (IF saveOk THEN 0 ELSE 1)
              /\ faults' <= MaxFaults
              /\ fileIndex' = r.index
              /\ attached' = r.attached
              /\ diskIndex' = IF saveOk THEN r.index ELSE diskIndex
              /\ lastCleanup' = [valid |-> TRUE, calls |-> r.calls, saved |-> saveOk,
                               err |-> SyncFilesErr(failing = {}, saveOk)]
              /\ cyc' = [cyc EXCEPT
                            !.detaches = @ + Cardinality(r.calls),
                            !.clean = @ /\ saveOk /\ (\A c \in r.calls : c.ok),
                            !.done = TRUE]
    /\ pc' = "idle"
    /\ last' = NoSync
    /\ UNCHANGED <<knowledgeID, dsFiles, nextId, dsHash, dsPath, upstream, ai, queue, present,
                   lastSynced, restarts, edits>>

\* ------------------------------------------------------------- scheduler and main
\* The phases of one SyncFiles call: ListKnowledge, the adapter loop,
\* cleanupOrphanedFiles, saveFileIndex.
SyncPhases == <<"listKnowledge", "adapters", "cleanup", "saveIndex">>
NPhases == Len(SyncPhases)
Phases == 1..NPhases

\* After construction: adapters, manager and scheduler exist, no goroutine has
\* been started.
SchedInit ==
    /\ mainPc = "spawn"
    /\ mainPhase = 0
    /\ schedPc = "none"
    /\ jobs = [p \in Phases |-> 0]
    /\ ticks = 0
    /\ cancelled = FALSE

\* Cron job goroutines inside SyncFiles, in phases 1..p.
RECURSIVE JobsUpTo(_)
JobsUpTo(p) == IF p = 0 THEN 0 ELSE jobs[p] + JobsUpTo(p - 1)

\* SyncFiles calls in progress, over all goroutines.
Running == (IF mainPhase > 0 THEN 1 ELSE 0) + JobsUpTo(NPhases)

\* Whether the context RunSync hands to SyncFiles is done while the call runs:
\* it is made by context.WithTimeout on context.Background(), so it is done
\* once its 30 minutes have passed, whatever happens to the context of main.
RunSyncCtxDone(deadlinePassed) == deadlinePassed

\* main: go sched.Start(ctx)
MainSpawn ==
    /\ mainPc = "spawn"
    /\ mainPc' = "initIndex"
    /\ schedPc' = "addFunc"
    /\ UNCHANGED <<mainPhase, jobs, ticks, cancelled>>

\* main: InitializeFileIndex returns, RunSync calls SyncFiles.
MainInitDone ==
    /\ mainPc = "initIndex"
    /\ mainPc' = "initialSync"
    /\ mainPhase' = 1
    /\ UNCHANGED <<schedPc, jobs, ticks, cancelled>>

\* main: the initial SyncFiles call moves on one phase, and returns after the last.
MainSyncStep ==
    /\ mainPc = "initialSync"
    /\ IF mainPhase < NPhases
       THEN mainPhase' = mainPhase + 1 /\ UNCHANGED mainPc
       ELSE mainPhase' = 0 /\ mainPc' = "waitSignal"
    /\ UNCHANGED <<schedPc, jobs, ticks, cancelled>>

\* main: a signal arrives on sigChan, cancel() is called.
MainShutdown ==
    /\ mainPc = "waitSignal"
    /\ mainPc' = "shutdown"
    /\ cancelled' = TRUE
    /\ UNCHANGED <<mainPhase, schedPc, jobs, ticks>>

\* Scheduler.Start: AddFunc succeeded, cron.Start()
SchedCronStart ==
    /\ schedPc = "addFunc"
    /\ schedPc' = "serving"
    /\ UNCHANGED <<mainPc, mainPhase, jobs, ticks, cancelled>>

\* Scheduler.Start: ctx.Done() fires, cron.Stop()
SchedCronStop ==
    /\ schedPc = "serving"
    /\ cancelled
    /\ schedPc' = "stopped"
    /\ UNCHANGED <<mainPc, mainPhase, jobs, ticks, cancelled>>

\* The schedule fires: cron (built by cron.New with no job wrapper) starts the
\* job in a goroutine of its own, which calls RunSync and so SyncFiles.
CronTick ==
    /\ schedPc = "serving"
    /\ ticks < MaxTicks
    /\ ticks' = ticks + 1
    /\ jobs' = [jobs EXCEPT ![1] = @ + 1]
    /\ UNCHANGED <<mainPc, mainPhase, schedPc, cancelled>>

\* A job's SyncFiles call moves on one phase, and returns after the last.
JobStep ==
    /\ \E p \in Phases :
          /\ jobs[p] > 0
          /\ jobs' = IF p < NPhases
                     THEN [jobs EXCEPT ![p] = @ - 1, ![p + 1] = @ + 1]
                     ELSE [jobs EXCEPT ![p] = @ - 1]
    /\ UNCHANGED <<mainPc, mainPhase, schedPc, ticks, cancelled>>

\* ------------------------------------------------------------- client
\* Answers of the downstream to one HTTP request: a status code, or no answer
\* at all (transport error: client.Do returns an error), written as code 0.
NoAnswer == 0

\* Variant: a remove that reports every answer other than 200 and 201 as an error.
RemoveFailsStrict(answer) == answer \notin {200, 201}

\* RemoveFileFromKnowledge: the error it returns (TRUE) or nil (FALSE) for the
\* answer to its request.
RemoveFails(answer) ==
    IF answer = NoAnswer THEN TRUE
    ELSE IF answer = 404 THEN FALSE
    ELSE answer \notin {200, 201}

NoRemove == [valid |-> FALSE]

\* pollIntervals of waitForFileProcessing: attempts and delay in seconds.
pollIntervals ==
    <<[attempts |-> 5, delay |-> 2], [attempts |-> 5, delay |-> 5],
      [attempts |-> 10, delay |-> 10], [attempts |-> 15, delay |-> 15],
      [attempts |-> 16, delay |-> 20]>>

RECURSIVE AttemptsUpTo(_)
AttemptsUpTo(n) == IF n = 0 THEN 0 ELSE pollIntervals[n].attempts + AttemptsUpTo(n - 1)

totalAttempts == AttemptsUpTo(Len(pollIntervals))

\* Data.Status values a probe can read, and what GetFile can return: a File
\* with one of them, or an error (no answer, or a status code other than 200).
DataStatuses == {"processed", "completed", "", "error", "failed", "pending", "processing"}
GetFileError == "get file error"
ProbeResults == DataStatuses \cup {GetFileError}

\* Before the call: no probe, no sleep.  g and i are the indices of the two
\* loops (i counts the iterations done in group g), attempt the probe number,
\* probes the GetFile calls issued, slept the seconds slept, lastSleep the
\* probe number after which the latest sleep began, seen the result of the
\* latest probe, result what the call returned.
WaitIdle ==
    [pc |-> "idle", g |-> 1, i |-> 0, attempt |-> 0, probes |-> 0, slept |-> 0,
     lastSleep |-> 0, seen |-> "none", result |-> "none"]

\* The zero File, and UploadFile before it is called.  pc is "idle", "pending"
\* (the response read Data.Status "pending"), "waiting" (inside
\* waitForFileProcessing) or "returned"; wait is what waitForFileProcessing
\* returned ("none" when it was not called).
NoFile == [id |-> "", status |-> ""]
UploadIdle == [pc |-> "idle", file |-> NoFile, err |-> FALSE, wait |-> "none"]
NoTail == [valid |-> FALSE]

ClientInit ==
    /\ member = TRUE
    /\ rm = NoRemove
    /\ w = WaitIdle
    /\ ctxDone = FALSE
    /\ up = UploadIdle
    /\ sf = NoTail

\* RemoveFileFromKnowledge(knowledgeID, fileID): the downstream removes the
\* file and answers 200 when it holds it, answers 404 when it does not, and may
\* answer with a server error or not at all instead.
ClientRemove ==
    /\ \E answer \in {IF member THEN 200 ELSE 404, 500, NoAnswer} :
          /\ member' = IF answer = 200 THEN FALSE ELSE member
          /\ rm' = [valid |-> TRUE, answer |-> answer, err |-> RemoveFails(answer),
                    wasMember |-> member]
    /\ UNCHANGED <<w, ctxDone, up, sf>>

\* The context of the call is cancelled or its deadline passes.
CtxCancel ==
    /\ w.pc \notin {"idle", "done"}
    /\ ~ctxDone
    /\ ctxDone' = TRUE
    /\ UNCHANGED <<member, rm, w, up, sf>>

\* UploadFile's request fails: no answer, or a status other than 200 and 201.
UploadFails(answer) == answer = NoAnswer \/ answer \notin {200, 201}

\* Variant: UploadFile returns the error of waitForFileProcessing.
UploadReturnsWaitError(file, waitResult) ==
    IF waitResult \in {"none", "ok"}
    THEN [pc |-> "returned", file |-> file, err |-> FALSE, wait |-> waitResult]
    ELSE [pc |-> "returned", file |-> NoFile, err |-> TRUE, wait |-> waitResult]

\* What UploadFile returns once the response is decoded: the file and nil,
\* whatever waitForFileProcessing returned (its error is only logged).
UploadReturns(file, waitResult) ==
    [pc |-> "returned", file |-> file, err |-> FALSE, wait |-> waitResult]

\* UploadFile up to the test of Data.Status: the request, the status check and
\* the decoding of the body.  The downstream answers with a File carrying a
\* fresh ID and any Data.Status, with a body that does not decode, with a
\* server error, or not at all.
UploadPost ==
    /\ up.pc = "idle"
    /\ w.pc = "idle"
    /\ \E answer \in {200, 201, 500, NoAnswer}, decodes \in BOOLEAN,
          n \in 1..2, st \in DataStatuses :
          LET file == [id |-> Ids[n], status |-> st]
          IN  up' = IF UploadFails(answer) \/ ~decodes
                    THEN [pc |-> "returned", file |-> NoFile, err |-> TRUE, wait |-> "none"]
                    ELSE IF st = "pending"
                    THEN [pc |-> "pending", file |-> file, err |-> FALSE, wait |-> "none"]
                    ELSE UploadReturns(file, "none")
    /\ sf' = NoTail
    /\ UNCHANGED <<member, rm, w, ctxDone>>

\* waitForFileProcessing is called (UploadFile read Data.Status "pending").
WaitStart ==
    /\ w.pc = "idle"
    /\ up.pc = "pending"
    /\ w' = [WaitIdle EXCEPT !.pc = "top"]
    /\ up' = [up EXCEPT !.pc = "waiting"]
    /\ UNCHANGED <<member, rm, ctxDone, sf>>

\* End of one iteration of the inner loop: i++, the next group after the last
\* attempt of this one, the timeout error after the last group.
WaitAdvance(s) ==
    IF s.i + 1 < pollIntervals[s.g].attempts
    THEN [s EXCEPT !.i = @ + 1, !.pc = "top"]
    ELSE IF s.g < Len(pollIntervals)
    THEN [s EXCEPT !.g = @ + 1, !.i = 0, !.pc = "top"]
    ELSE [s EXCEPT !.pc = "done", !.result = "timeout"]

\* Top of an iteration: attempt++, then the non-blocking look at ctx.Done().
WaitTop ==
    /\ w.pc = "top"
    /\ w' = IF ctxDone
            THEN [w EXCEPT !.attempt = @ + 1, !.pc = "done", !.result = "cancelled"]
            ELSE [w EXCEPT !.attempt = @ + 1, !.pc = "probe"]
    /\ UNCHANGED <<member, rm, ctxDone, up, sf>>

\* Variant: an empty Data.Status is taken as still processing.
ProbeVerdictEmptyPending(r) ==
    IF r = GetFileError THEN "unknown"
    ELSE IF r \in {"processed", "completed"} THEN "ok"
    ELSE IF r \in {"error", "failed"} THEN "failed"
    ELSE "processing"

\* What waitForFileProcessing makes of the result of one GetFile.
ProbeVerdict(r) ==
    IF r = GetFileError THEN "unknown"
    ELSE IF r \in {"processed", "completed", ""} THEN "ok"
    ELSE IF r \in {"error", "failed"} THEN "failed"
    ELSE "processing"

\* GetFile and the decision on its result.  A context that is done makes the
\* request fail.
WaitProbe ==
    /\ w.pc = "probe"
    /\ \E r \in (IF ctxDone THEN {GetFileError} ELSE ProbeResults) :
          LET s == [w EXCEPT !.probes = @ + 1, !.seen = r]
              v == ProbeVerdict(r)
          IN  w' = IF v = "unknown"
                   THEN [s EXCEPT !.pc = "sleepErr"]
                   ELSE IF v = "ok"
                   THEN [s EXCEPT !.pc = "done", !.result = "ok"]
                   ELSE IF v = "failed"
                   THEN [s EXCEPT !.pc = "done", !.result = "failed"]
                   ELSE IF s.attempt < totalAttempts
                   THEN [s EXCEPT !.pc = "sleep"]
                   ELSE WaitAdvance(s)
    /\ UNCHANGED <<member, rm, ctxDone, up, sf>>

\* time.Sleep(interval.delay) after a failed GetFile: it runs to its end.
WaitSleepErr ==
    /\ w.pc = "sleepErr"
    /\ w' = WaitAdvance([w EXCEPT !.slept = @ + pollIntervals[w.g].delay,
                                  !.lastSleep = w.attempt])
    /\ UNCHANGED <<member, rm, ctxDone, up, sf>>

\* The select on ctx.Done() and time.After(interval.delay): the case that is
\* ready first is taken, the timer when the context is not done before it fires.
WaitSleep ==
    /\ w.pc = "sleep"
    /\ \/ /\ ~ctxDone
          /\ w' = WaitAdvance([w EXCEPT !.slept = @ + pollIntervals[w.g].delay,
                                        !.lastSleep = w.attempt])
       \/ /\ ctxDone
          /\ w' = [w EXCEPT !.pc = "done", !.result = "cancelled"]
    /\ UNCHANGED <<member, rm, ctxDone, up, sf>>

\* waitForFileProcessing has returned to UploadFile, which returns in turn.
WaitReturn ==
    /\ w.pc = "done"
    /\ up.pc = "waiting"
    /\ w' = WaitIdle
    /\ up' = UploadReturns(up.file, w.result)
    /\ UNCHANGED <<member, rm, ctxDone, sf>>

\* The files syncFile is given in the client model: those of the local adapter.
ClientSource == Adapters[NAdapters]

\* Index in Ids of an artifact ID.
IdIndex(id) == CHOOSE n \in DOMAIN Ids : Ids[n] = id

\* syncFile of a file that has no entry, from the return of UploadFile on: the
\* upload's outcome and ID are those UploadFile returned, the attach fails
\* when the context is done and may fail otherwise.  The next call gets a
\* fresh context.
SyncFileAfterUpload ==
    /\ up.pc = "returned"
    /\ \E f \in Files(ClientSource), attachOk \in (IF ctxDone THEN {FALSE} ELSE BOOLEAN) :
          LET n == IF up.err THEN 1 ELSE IdIndex(up.file.id)
              o == [detach |-> TRUE, save |-> TRUE, upload |-> ~up.err, attach |-> attachOk]
              r == SyncFile(EmptyMap, {}, EmptyMap, n, f, ClientSource, NoKey, o)
          IN  sf' = [valid |-> TRUE, f |-> f, upload |-> up, calls |-> r.calls,
                     err |-> r.err, index |-> r.index]
    /\ up' = UploadIdle
    /\ ctxDone' = FALSE
    /\ UNCHANGED <<member, rm, w>>

\* ------------------------------------------------------------- the loops of SyncFiles
\* The adapters main can hand to SyncFiles, in the order it appends them.
LoopAdapters == <<"github", "confluence", "local">>
NLoopAdapters == Len(LoopAdapters)

\* Most files one FetchFiles returns here.
MaxLoopFiles == 2

\* Before SyncFiles is called.  ai is the adapter index, n the number of files
\* its FetchFiles returned, fi the index of the next file; events logs, in
\* order, each FetchFiles call (with n and whether it succeeded) and each
\* syncFile call (with the file's index and whether it returned nil).
LoopIdle == [pc |-> "idle", ai |-> 0, n |-> 0, fi |-> 0, events |-> <<>>]

LoopInit == lp = LoopIdle

\* SyncFiles is called: ListKnowledge (its error is only logged), currentFiles.
LoopBegin ==
    /\ lp.pc = "idle"
    /\ lp' = [LoopIdle EXCEPT !.pc = "adapter", !.ai = 1]

\* One iteration of the adapter loop up to the file loop: FetchFiles fails
\* (continue), or returns n files.
LoopFetch ==
    /\ lp.pc = "adapter"
    /\ lp.ai <= NLoopAdapters
    /\ \E ok \in BOOLEAN, n \in 0..MaxLoopFiles :
          LET e == [op |-> "fetch", a |-> lp.ai, i |-> IF ok THEN n ELSE 0, ok |-> ok]
              s == [lp EXCEPT !.events = Append(@, e)]
          IN  lp' = IF ~ok \/ n = 0
                    THEN [s EXCEPT !.ai = @ + 1, !.n = 0, !.fi = 0]
                    ELSE [s EXCEPT !.pc = "files", !.n = n, !.fi = 1]

\* Variant: a syncFile error ends the cycle.
AfterSyncFileAbort(s, ok) ==
    IF ~ok
    THEN [s EXCEPT !.pc = "done"]
    ELSE IF s.fi < s.n
    THEN [s EXCEPT !.fi = @ + 1]
    ELSE [s EXCEPT !.pc = "adapter", !.ai = @ + 1, !.n = 0, !.fi = 0]

\* Where the file loop goes once syncFile has returned: an error is logged and
\* the loop continues like after nil, with the next file, or after the last
\* file with SetLastSync and the next adapter.
AfterSyncFile(s, ok) ==
    IF s.fi < s.n
    THEN [s EXCEPT !.fi = @ + 1]
    ELSE [s EXCEPT !.pc = "adapter", !.ai = @ + 1, !.n = 0, !.fi = 0]

\* One iteration of the file loop: syncFile returns nil or an error.
LoopSyncFile ==
    /\ lp.pc = "files"
    /\ \E ok \in BOOLEAN :
          LET e == [op |-> "sync", a |-> lp.ai, i |-> lp.fi, ok |-> ok]
          IN  lp' = AfterSyncFile([lp EXCEPT !.events = Append(@, e)], ok)

\* After the last adapter: cleanup, save, return.
LoopEnd ==
    /\ lp.pc = "adapter"
    /\ lp.ai > NLoopAdapters
    /\ lp' = [lp EXCEPT !.pc = "done"]

\* SyncFiles has returned; the next call starts from scratch.
LoopReturn ==
    /\ lp.pc = "done"
    /\ lp' = LoopIdle

\* ------------------------------------------------------------- NewManager
\* What NewManager can find at indexPath: no file, a file written by
\* saveFileIndex, a file it cannot read, a file that is not JSON (truncated by
\* an interrupted write, say), and a JSON file with a value of the wrong type.
DiskStates == {"absent", "valid", "unreadable", "garbage", "mistyped"}

\* Keys the stored index can hold.
StoredKeys == {<<"a.md">>, <<"b.md">>, <<"c.md">>}

NoManager == [valid |-> FALSE]

StartInit == nm = [disk |-> "absent", stored |-> {}, result |-> NoManager]

\* The index file changes while the process is down.
DiskChange ==
    \E d \in DiskStates, keys \in SUBSET StoredKeys :
       /\ d = "absent" => keys = {}
       /\ nm' = [disk |-> d, stored |-> keys, result |-> NoManager]

\* loadFileIndex into an empty map: nil for an absent file; the error of
\* os.ReadFile; the error of json.Unmarshal, which leaves the map untouched on
\* a syntax error and fills in the entries it could decode (any part of the
\* stored ones) on a type error.
LoadFileIndex(disk, keys, decoded) ==
    IF disk = "absent" THEN [err |-> FALSE, index |-> {}]
    ELSE IF disk = "unreadable" THEN [err |-> TRUE, index |-> {}]
    ELSE IF disk = "garbage" THEN [err |-> TRUE, index |-> {}]
    ELSE IF disk = "mistyped" THEN [err |-> TRUE, index |-> decoded]
    ELSE [err |-> FALSE, index |-> keys]

\* The error NewManager returns (TRUE) or nil (FALSE): that of os.MkdirAll; the
\* error of loadFileIndex is logged as a warning.
NewManagerErr(mkdirOk, loadErr) == ~mkdirOk

\* NewManager: MkdirAll, the Manager with an empty fileIndex, loadFileIndex.
NewManager ==
    /\ ~nm.result.valid
    /\ \E mkdirOk \in BOOLEAN, decoded \in SUBSET nm.stored :
          LET l == LoadFileIndex(nm.disk, nm.stored, decoded)
              err == NewManagerErr(mkdirOk, mkdirOk /\ l.err)
          IN  nm' = [nm EXCEPT !.result =
                        [valid |-> TRUE, err |-> err, loadErr |-> mkdirOk /\ l.err,
                         mkdirOk |-> mkdirOk,
                         index |-> IF mkdirOk THEN l.index ELSE {}]]

\* ------------------------------------------------------------- adapters
\* Repositories (GitHub adapter) or folders (local adapter) of one adapter.
MaxItems == 3

\* One configured item: whether its listing can be fetched (GetContents on the
\* repository root succeeds; the folder can be walked) and the files it holds,
\* in listing order.  A file is named by its item here.
ItemStates(i) == [reachable : BOOLEAN, files : {<<>>, <<[item |-> i]>>}]

AdapterKinds == {"github", "local"}

NoFetch == [valid |-> FALSE]

AdapterInit ==
    ad = [kind |-> "github",
          items |-> [i \in 1..MaxItems |-> [reachable |-> TRUE, files |-> <<>>]],
          result |-> NoFetch]

\* fetchRepositoryFiles: the error of GetContents on the root, else the files.
FetchRepositoryFiles(item) ==
    IF item.reachable THEN [err |-> FALSE, files |-> item.files]
    ELSE [err |-> TRUE, files |-> <<>>]

\* fetchFolderFiles: the WalkDir callback logs every error it is handed, the
\* one for the root included, and returns nil, so the walk never fails.
FetchFolderFiles(item) ==
    IF item.reachable THEN [err |-> FALSE, files |-> item.files]
    ELSE [err |-> FALSE, files |-> <<>>]

FetchItem(kind, item) ==
    IF kind = "github" THEN FetchRepositoryFiles(item) ELSE FetchFolderFiles(item)

\* FetchFiles of both adapters: the items in order, each item's files appended;
\* the first item that returns an error ends the call with nil and that error.
RECURSIVE FetchFrom(_, _, _, _)
FetchFrom(kind, items, i, files) ==
    IF i > Len(items) THEN [valid |-> TRUE, err |-> FALSE, files |-> files]
    ELSE LET r == FetchItem(kind, items[i])
         IN  IF r.err THEN [valid |-> TRUE, err |-> TRUE, files |-> <<>>]
             ELSE FetchFrom(kind, items, i + 1, files \o r.files)

\* The adapter is configured, or what its items hold changes.
AdapterChange ==
    \E kind \in AdapterKinds, items \in [1..MaxItems -> UNION {ItemStates(i) : i \in 1..MaxItems}] :
       /\ \A i \in 1..MaxItems : items[i] \in ItemStates(i)
       /\ ad' = [kind |-> kind, items |-> items, result |-> NoFetch]

\* FetchFiles is called.
AdapterFetchFiles ==
    /\ ~ad.result.valid
    /\ ad' = [ad EXCEPT !.result = FetchFrom(ad.kind, ad.items, 1, <<>>)]

\* ------------------------------------------------------------- RetryWithBackoff
\* Largest config.MaxRetries tried.
MaxRetriesTried == 3

\* DefaultRetryConfig: BaseDelay and MaxDelay in seconds.
BaseDelay == 1
MaxDelay == 60

\* An error value, by what IsRetryableError and GetRetryDelay look at: whether
\* it is a net.Error and then whether Temporary() or Timeout() holds, whether
\* its message holds one of the permanentErrors, and which of the
\* retryableErrors its message holds ("none" when it holds none).  NoError is
\* nil.
NoError == [net |-> FALSE, transient |-> FALSE, perm |-> FALSE, word |-> "nil"]

Errors ==
    {[net |-> TRUE, transient |-> TRUE, perm |-> FALSE, word |-> "timeout"],
     [net |-> TRUE, transient |-> FALSE, perm |-> FALSE, word |-> "none"],
     [net |-> FALSE, transient |-> FALSE, perm |-> FALSE, word |-> "rate limit"],
     [net |-> FALSE, transient |-> FALSE, perm |-> FALSE, word |-> "bad gateway"],
     [net |-> FALSE, transient |-> FALSE, perm |-> TRUE, word |-> "none"],
     [net |-> FALSE, transient |-> FALSE, perm |-> TRUE, word |-> "timeout"],
     [net |-> FALSE, transient |-> FALSE, perm |-> FALSE, word |-> "none"]}

IsRetryableError(err) ==
    IF err = NoError THEN FALSE
    ELSE IF err.net THEN err.transient
    ELSE IF err.perm THEN FALSE
    ELSE err.word # "none"

Min(a, b) == IF a < b THEN a ELSE b

\* GetRetryDelay in seconds: attempt * 5 s (at most 5 min) for a rate limit,
\* attempt * 2 s (at most 30 s) for a timeout or connection error, else
\* baseDelay * 2^attempt (at most 2 min).
GetRetryDelay(err, attempt, baseDelay) ==
    IF err = NoError THEN baseDelay
    ELSE IF err.word = "rate limit" THEN Min(attempt * 5, 300)
    ELSE IF err.word = "timeout" THEN Min(attempt * 2, 30)
    ELSE Min(baseDelay * 2^attempt, 120)

\* The delay of the backoff before attempt number attempt (> 0), capped by
\* MaxDelay.  The jitter, at most a tenth of the delay, is left out: it is
\* zero when the delay is.
BackoffDelay(lastErr, attempt) == Min(GetRetryDelay(lastErr, attempt - 1, BaseDelay), MaxDelay)

\* Before the call.  max is config.MaxRetries, attempt the loop variable, outs
\* the values operation() has returned so far, in order, invoked the number of
\* invocations, ctxDone whether ctx is done, result what the call returned:
\* "nil", "err" (the operation's error as it is), "ctx" (ctx.Err()) or
\* "exhausted" (operation failed after max+1 retries).
RetryIdle ==
    [pc |-> "idle", max |-> 0, attempt |-> 0, outs |-> <<>>, invoked |-> 0,
     ctxDone |-> FALSE, ctxAtCall |-> FALSE, slept |-> 0, result |-> "none"]

RetryInit == rt = RetryIdle

\* RetryWithBackoff is called, with a context that may be done already.
RetryCall ==
    /\ rt.pc = "idle"
    /\ \E m \in 0..MaxRetriesTried, done \in BOOLEAN :
          rt' = [RetryIdle EXCEPT !.pc = "top", !.max = m, !.ctxDone = done,
                                  !.ctxAtCall = done]

\* ctx is cancelled, or its deadline passes, while the call runs.
RetryCtxCancel ==
    /\ rt.pc \in {"top", "running"}
    /\ ~rt.ctxDone
    /\ rt' = [rt EXCEPT !.ctxDone = TRUE]

\* Top of an iteration up to the invocation of operation().  On the first
\* attempt the operation is invoked at once.  On a later one the select on
\* ctx.Done() and time.After(delay) comes first: the timer fires when ctx is
\* not done before it; with ctx done, ctx.Err() is returned, unless the delay
\* is zero and both cases are ready, when either may be taken.
RetryTop ==
    /\ rt.pc = "top"
    /\ LET delay == IF rt.attempt > 0
                    THEN BackoffDelay(rt.outs[Len(rt.outs)], rt.attempt) ELSE 0
           invoke == [rt EXCEPT !.pc = "running", !.invoked = @ + 1, !.slept = @ + delay]
           abort == [rt EXCEPT !.pc = "done", !.result = "ctx"]
       IN  \/ /\ rt.attempt = 0 \/ ~rt.ctxDone \/ delay = 0
              /\ rt' = invoke
           \/ /\ rt.attempt > 0 /\ rt.ctxDone
              /\ rt' = abort

\* Variant: a failed attempt is always followed by another one.
AfterAttemptUnbounded(s, err) ==
    IF err = NoError THEN [s EXCEPT !.pc = "done", !.result = "nil"]
    ELSE IF ~IsRetryableError(err) THEN [s EXCEPT !.pc = "done", !.result = "err"]
    ELSE [s EXCEPT !.pc = "top", !.attempt = @ + 1]

\* From the return of operation() to the end of the iteration.
AfterAttempt(s, err) ==
    IF err = NoError THEN [s EXCEPT !.pc = "done", !.result = "nil"]
    ELSE IF ~IsRetryableError(err) THEN [s EXCEPT !.pc = "done", !.result = "err"]
    ELSE IF s.attempt = s.max THEN [s EXCEPT !.pc = "done", !.result = "exhausted"]
    ELSE [s EXCEPT !.pc = "top", !.attempt = @ + 1]

\* operation() returns nil or an error.  (The guard on outs bounds the log.)
RetryOperationReturns ==
    /\ rt.pc = "running"
    /\ Len(rt.outs) <= MaxRetriesTried
    /\ \E err \in Errors \cup {NoError} :
          rt' = AfterAttempt([rt EXCEPT !.outs = Append(@, err)], err)

\* RetryWithBackoff has returned.
RetryReturn ==
    /\ rt.pc = "done"
    /\ rt' = RetryIdle

\* ------------------------------------------------------------- specifications
\* Spec: the sync manager driven one call at a time.
Init == MgrInit /\ SchedInit /\ ClientInit /\ LoopInit /\ StartInit /\ AdapterInit /\ RetryInit
Next ==
    \/ UpstreamChange /\ UNCHANGED <<schedVars, clientVars, loopVars, startVars, adapterVars, retryVars>>
    \/ Restart /\ UNCHANGED <<schedVars, clientVars, loopVars, startVars, adapterVars, retryVars>>
    \/ InitializeSkip /\ UNCHANGED <<schedVars, clientVars, loopVars, startVars, adapterVars, retryVars>>
    \/ InitializeReplace /\ UNCHANGED <<schedVars, clientVars, loopVars, startVars, adapterVars, retryVars>>
    \/ BeginCycle /\ UNCHANGED <<schedVars, clientVars, loopVars, startVars, adapterVars, retryVars>>
    \/ FetchFail /\ UNCHANGED <<schedVars, clientVars, loopVars, startVars, adapterVars, retryVars>>
    \/ FetchOk /\ UNCHANGED <<schedVars, clientVars, loopVars, startVars, adapterVars, retryVars>>
    \/ SyncStep /\ UNCHANGED <<schedVars, clientVars, loopVars, startVars, adapterVars, retryVars>>
    \/ FinishCycle /\ UNCHANGED <<schedVars, clientVars, loopVars, startVars, adapterVars, retryVars>>
Spec == Init /\ [][Next]_vars

\* SchedSpec: the goroutines of main and the scheduler, each SyncFiles call
\* reduced to its phases.
SchedNext ==
    \/ MainSpawn /\ UNCHANGED <<mgrVars, clientVars, loopVars, startVars, adapterVars, retryVars>>
    \/ MainInitDone /\ UNCHANGED <<mgrVars, clientVars, loopVars, startVars, adapterVars, retryVars>>
    \/ MainSyncStep /\ UNCHANGED <<mgrVars, clientVars, loopVars, startVars, adapterVars, retryVars>>
    \/ MainShutdown /\ UNCHANGED <<mgrVars, clientVars, loopVars, startVars, adapterVars, retryVars>>
    \/ SchedCronStart /\ UNCHANGED <<mgrVars, clientVars, loopVars, startVars, adapterVars, retryVars>>
    \/ SchedCronStop /\ UNCHANGED <<mgrVars, clientVars, loopVars, startVars, adapterVars, retryVars>>
    \/ CronTick /\ UNCHANGED <<mgrVars, clientVars, loopVars, startVars, adapterVars, retryVars>>
    \/ JobStep /\ UNCHANGED <<mgrVars, clientVars, loopVars, startVars, adapterVars, retryVars>>
SchedSpec == Init /\ [][SchedNext]_vars

\* ClientSpec: the calls of the downstream client, one HTTP exchange at a time.
ClientNext ==
    \/ ClientRemove /\ UNCHANGED <<mgrVars, schedVars, loopVars, startVars, adapterVars, retryVars>>
    \/ CtxCancel /\ UNCHANGED <<mgrVars, schedVars, loopVars, startVars, adapterVars, retryVars>>
    \/ WaitStart /\ UNCHANGED <<mgrVars, schedVars, loopVars, startVars, adapterVars, retryVars>>
    \/ WaitTop /\ UNCHANGED <<mgrVars, schedVars, loopVars, startVars, adapterVars, retryVars>>
    \/ WaitProbe /\ UNCHANGED <<mgrVars, schedVars, loopVars, startVars, adapterVars, retryVars>>
    \/ WaitSleepErr /\ UNCHANGED <<mgrVars, schedVars, loopVars, startVars, adapterVars, retryVars>>
    \/ WaitSleep /\ UNCHANGED <<mgrVars, schedVars, loopVars, startVars, adapterVars, retryVars>>
    \/ WaitReturn /\ UNCHANGED <<mgrVars, schedVars, loopVars, startVars, adapterVars, retryVars>>
    \/ UploadPost /\ UNCHANGED <<mgrVars, schedVars, loopVars, startVars, adapterVars, retryVars>>
    \/ SyncFileAfterUpload /\ UNCHANGED <<mgrVars, schedVars, loopVars, startVars, adapterVars, retryVars>>
ClientSpec == Init /\ [][ClientNext]_vars


\* LoopSpec: the adapter loop and the file loop of SyncFiles, each call reduced
\* to its outcome.
LoopNext ==
    \/ LoopBegin /\ UNCHANGED <<mgrVars, schedVars, clientVars, startVars, adapterVars, retryVars>>
    \/ LoopFetch /\ UNCHANGED <<mgrVars, schedVars, clientVars, startVars, adapterVars, retryVars>>
    \/ LoopSyncFile /\ UNCHANGED <<mgrVars, schedVars, clientVars, startVars, adapterVars, retryVars>>
    \/ LoopEnd /\ UNCHANGED <<mgrVars, schedVars, clientVars, startVars, adapterVars, retryVars>>
    \/ LoopReturn /\ UNCHANGED <<mgrVars, schedVars, clientVars, startVars, adapterVars, retryVars>>
LoopSpec == Init /\ [][LoopNext]_vars

\* StartSpec: NewManager against the index file it finds.
StartNext ==
    \/ DiskChange /\ UNCHANGED <<mgrVars, schedVars, clientVars, loopVars, adapterVars, retryVars>>
    \/ NewManager /\ UNCHANGED <<mgrVars, schedVars, clientVars, loopVars, adapterVars, retryVars>>
StartSpec == Init /\ [][StartNext]_vars

\* AdapterSpec: FetchFiles of the GitHub and local folder adapters.
AdapterNext ==
    \/ AdapterChange /\ UNCHANGED <<mgrVars, schedVars, clientVars, loopVars, startVars, retryVars>>
    \/ AdapterFetchFiles /\ UNCHANGED <<mgrVars, schedVars, clientVars, loopVars, startVars, retryVars>>
AdapterSpec == Init /\ [][AdapterNext]_vars

\* RetrySpec: one RetryWithBackoff call after the other.
RetryNext ==
    \/ RetryCall /\ UNCHANGED <<mgrVars, schedVars, clientVars, loopVars, startVars, adapterVars>>
    \/ RetryCtxCancel /\ UNCHANGED <<mgrVars, schedVars, clientVars, loopVars, startVars, adapterVars>>
    \/ RetryTop /\ UNCHANGED <<mgrVars, schedVars, clientVars, loopVars, startVars, adapterVars>>
    \/ RetryOperationReturns /\ UNCHANGED <<mgrVars, schedVars, clientVars, loopVars, startVars, adapterVars>>
    \/ RetryReturn /\ UNCHANGED <<mgrVars, schedVars, clientVars, loopVars, startVars, adapterVars>>
RetrySpec == Init /\ [][RetryNext]_vars

\* ------------------------------------------------------------- claims
AdapterNames == Range(Adapters)

\* The step of SyncFiles that runs cleanupOrphanedFiles and saves the index.
CleanupStep == pc = "adapter" /\ ai > NAdapters /\ pc' = "idle"

\* The step that runs syncFile on the file at the head of the queue.
SyncFileStep == pc = "files" /\ last'.valid

\* C1: at most one SyncFiles call is executing at any time; the startup run and
\* the cron-triggered runs never overlap.
C1_NoOverlappingCycles == Running <= 1

\* C2: a cycle that directly follows a completed cycle in which every call
\* succeeded, over the same adapter output, performs no upload, no attach and no
\* detach and leaves the index as it was (stated for second cycles in which no
\* call fails either).
C2_FixedPoint ==
    [][(CleanupStep /\ cyc.afterClean /\ cyc.fetched /\ cyc'.clean)
          => /\ cyc'.uploads = 0
             /\ cyc'.attaches = 0
             /\ cyc'.detaches = 0
             /\ fileIndex' = diskIndex]_vars

\* C3: cleanupOrphanedFiles leaves every entry whose source is an adapter name
\* in the index, unchanged, whether that adapter's fetch failed in the cycle or
\* returned nothing.
C3_AdapterEntriesKept ==
    [][CleanupStep
          => \A k \in DOMAIN fileIndex :
                fileIndex[k].source \in AdapterNames
                   => k \in DOMAIN fileIndex' /\ fileIndex'[k] = fileIndex[k]]_vars

\* C3 witness: a cycle has ended in which the fetch of one adapter failed and the
\* other returned nothing, and an entry of the failed adapter, absent from
\* currentFiles, is still in the index.
C3_Witness ==
    /\ pc = "idle"
    /\ lastCleanup.valid
    /\ present = {}
    /\ \E a \in AdapterNames :
          /\ a \notin lastSynced
          /\ AdapterNames \ {a} \subseteq lastSynced
          /\ \E k \in DOMAIN fileIndex : fileIndex[k].source = a

\* C4: in the first cycle after a restart and its re-import, the artifacts
\* uploaded earlier for an adapter whose fetch now fails stay attached, and the
\* entries that track them stay in the index.
C4_OutageKeepsFiles ==
    [][(CleanupStep /\ cyc.first /\ restarts > 0)
          => \A a \in AdapterNames \ lastSynced :
                \A m \in attached :
                   dsFiles[m[2]].by = a
                      => /\ m \in attached'
                         /\ \A k \in DOMAIN fileIndex :
                               fileIndex[k].fileID = m[2] => k \in DOMAIN fileIndex']_vars

\* C5: cleanupOrphanedFiles issues a detach for an entry, against the knowledge
\* base the entry records, and removes the entry, exactly when the basename of
\* the entry is not in currentFiles, its source is the re-import marker and its
\* file ID is set; every other entry stays as it is and is not detached.
C5_OrphanIff ==
    [][CleanupStep
          => \A k \in DOMAIN fileIndex :
                LET e == fileIndex[k]
                    orphan == /\ Base(e.path) \notin present
                              /\ e.source = ReimportSource
                              /\ e.fileID # ""
                    detached == \E c \in lastCleanup'.calls :
                                   c.op = "detach" /\ c.id = e.fileID
                    toRecorded == \A c \in lastCleanup'.calls :
                                     c.id = e.fileID => c.kb = e.kid
                IN  /\ orphan => k \notin DOMAIN fileIndex' /\ detached /\ toRecorded
                    /\ ~orphan => /\ k \in DOMAIN fileIndex'
                                  /\ fileIndex'[k] = e
                                  /\ ~detached]_vars

\* C5 witness: a cleanup has just detached and removed an orphan while keeping
\* another entry.
C5_Witness ==
    /\ pc = "idle"
    /\ lastCleanup.valid
    /\ lastCleanup.calls # {}
    /\ fileIndex # EmptyMap

\* The file syncFile is about to handle, its basename and its effective
\* knowledge base.
CurFile == Head(queue)
CurName == Base(CurFile.path)
CurKid == EffectiveKid(CurFile.kid)

\* Sequence of the operations of a call log.
Ops(calls) == [i \in DOMAIN calls |-> calls[i].op]

\* C6: for a file whose basename is no index key and whose hash is the hash of
\* no entry, a syncFile that returns nil has issued exactly one upload, and one
\* attach to the effective knowledge base when there is one (none when both the
\* file's knowledge ID and m.knowledgeID are empty), and has added one entry
\* under the basename holding the file's path and hash, the ID the upload
\* returned, the adapter name and the effective knowledge base.
C6_NewFile ==
    [][(/\ SyncFileStep
        /\ ~last'.err
        /\ CurName \notin DOMAIN fileIndex
        /\ \A k \in DOMAIN fileIndex : fileIndex[k].hash # CurFile.hash)
          => LET calls == last'.calls
             IN  /\ Ops(calls) = IF CurKid # "" THEN <<"upload", "attach">>
                                               ELSE <<"upload">>
                 /\ calls[1].ok /\ calls[1].id = Ids[nextId]
                 /\ CurKid # "" => /\ calls[2].kb = CurKid
                                   /\ calls[2].id = calls[1].id
                                   /\ <<CurKid, calls[1].id>> \in attached'
                 /\ fileIndex' = MapPut(fileIndex, CurName,
                                        [path |-> CurFile.path, hash |-> CurFile.hash,
                                         fileID |-> calls[1].id, source |-> Adapters[ai],
                                         kid |-> CurKid])]_vars

\* C6 witness: a new file with no knowledge ID of its own has just been
\* uploaded, attached to the fallback knowledge base and indexed.
C6_Witness ==
    /\ last.valid /\ ~last.err /\ last.mk = NoKey
    /\ last.f.kid = "" /\ knowledgeID # ""
    /\ CountOp(last.calls, "attach") = 1
    /\ Base(last.f.path) \in DOMAIN fileIndex
    /\ fileIndex[Base(last.f.path)].kid = knowledgeID

\* C6 as stated: such a sync always issues one upload and one attach.
C6_NewFileAlwaysAttached ==
    [][(/\ SyncFileStep
        /\ ~last'.err
        /\ CurName \notin DOMAIN fileIndex
        /\ \A k \in DOMAIN fileIndex : fileIndex[k].hash # CurFile.hash)
          => /\ Ops(last'.calls) = <<"upload", "attach">>
             /\ last'.calls[2].kb = CurKid
             /\ CurName \in DOMAIN fileIndex']_vars

\* C7: for a file whose basename has an adapter-sourced entry bound to the same
\* non-empty effective knowledge base with another hash, syncFile first issues
\* one detach of the entry's file ID from that knowledge base, whatever else
\* happens; when it returns nil the calls were detach, upload, attach in this
\* order, whether or not the detach succeeded, and the entry holds the file's
\* hash and the ID the upload returned.
C7_UpdateInPlace ==
    [][(/\ SyncFileStep
        /\ CurName \in DOMAIN fileIndex
        /\ fileIndex[CurName].source \in AdapterNames
        /\ EffectiveKid(fileIndex[CurName].kid) = CurKid
        /\ CurKid # ""
        /\ fileIndex[CurName].hash # CurFile.hash)
          => LET calls == last'.calls
                 e == fileIndex[CurName]
             IN  /\ Len(calls) >= 1
                 /\ calls[1].op = "detach" /\ calls[1].kb = CurKid
                 /\ calls[1].id = e.fileID
                 /\ CountOp(calls, "detach") = 1
                 /\ ~last'.err =>
                       /\ Ops(calls) = <<"detach", "upload", "attach">>
                       /\ calls[3].kb = CurKid /\ calls[3].id = calls[2].id
                       /\ calls[2].id # e.fileID
                       /\ fileIndex'[CurName].hash = CurFile.hash
                       /\ fileIndex'[CurName].fileID = calls[2].id]_vars

\* C7 witness: an update in place has just completed although its detach failed.
C7_Witness ==
    /\ last.valid /\ ~last.err
    /\ last.mk = Base(last.f.path)
    /\ last.existing.source \in AdapterNames
    /\ Ops(last.calls) = <<"detach", "upload", "attach">>
    /\ ~last.calls[1].ok
    /\ fileIndex[last.mk].hash = last.f.hash
    /\ fileIndex[last.mk].fileID = last.calls[2].id

\* C7 as stated: the same for every effective knowledge base, the empty one
\* included.
C7_UpdateAnyKnowledge ==
    [][(/\ SyncFileStep
        /\ ~last'.err
        /\ CurName \in DOMAIN fileIndex
        /\ fileIndex[CurName].source \in AdapterNames
        /\ EffectiveKid(fileIndex[CurName].kid) = CurKid
        /\ fileIndex[CurName].hash # CurFile.hash)
          => /\ Ops(last'.calls) = <<"detach", "upload", "attach">>
             /\ fileIndex'[CurName].hash = CurFile.hash]_vars

\* C8: a file with the basename and the hash of its entry but another effective
\* knowledge base is uploaded once and attached once to the new knowledge base,
\* and the entry then records the new knowledge base and a new file ID.
C8_Migrate ==
    [][(/\ SyncFileStep
        /\ ~last'.err
        /\ CurName \in DOMAIN fileIndex
        /\ fileIndex[CurName].hash = CurFile.hash
        /\ EffectiveKid(fileIndex[CurName].kid) # ""
        /\ CurKid # ""
        /\ EffectiveKid(fileIndex[CurName].kid) # CurKid)
          => /\ CountOp(last'.calls, "upload") = 1
             /\ CountOp(last'.calls, "attach") = 1
             /\ fileIndex'[CurName].kid = CurKid
             /\ fileIndex'[CurName].fileID # fileIndex[CurName].fileID]_vars

\* C9: when the basename of the file is no index key but an entry with the
\* file's hash exists under another key, syncFile leaves the index without the
\* old key and with the new basename as a key, and uploads nothing.
C9_Rename ==
    [][(/\ SyncFileStep
        /\ ~last'.err
        /\ CurName \notin DOMAIN fileIndex
        /\ \E k \in DOMAIN fileIndex : fileIndex[k].hash = CurFile.hash)
          => /\ last'.mk \notin DOMAIN fileIndex'
             /\ CurName \in DOMAIN fileIndex'
             /\ CountOp(last'.calls, "upload") = 0]_vars

\* C10: when the entry found for the file was re-imported from the downstream
\* and is bound to the file's effective knowledge base, a syncFile that returns
\* nil has uploaded the file, whatever hash the entry holds.
C10_ReimportedAlwaysUploads ==
    [][(/\ SyncFileStep
        /\ ~last'.err
        /\ last'.mk # NoKey
        /\ last'.existing.source = ReimportSource
        /\ EffectiveKid(last'.existing.kid) = CurKid)
          => CountOp(last'.calls, "upload") = 1]_vars

\* The files the adapters report in a cycle in which every fetch succeeds.
Reported == UNION {Range(upstream[a]) : a \in AdapterNames}

\* No two reported files share a basename.
DistinctNames ==
    \A f, g \in Reported : Base(f.path) = Base(g.path) => f = g

\* C11: at the end of a cycle in which every fetch and every call succeeded,
\* every reported file has an entry under its basename holding its hash (stated
\* for cycles whose reported files have pairwise distinct basenames).
C11_ReportedFilesIndexed ==
    [][(CleanupStep /\ cyc.fetched /\ cyc'.clean /\ DistinctNames)
          => \A f \in Reported :
                /\ Base(f.path) \in DOMAIN fileIndex'
                /\ fileIndex'[Base(f.path)].hash = f.hash]_vars

\* The entry under the file's basename tracks an artifact that this adapter
\* uploaded with the file's present content and that is attached to the file's
\* effective knowledge base.
CurAlreadyUploaded ==
    /\ CurName \in DOMAIN fileIndex
    /\ fileIndex[CurName].fileID \in DOMAIN dsFiles
    /\ dsFiles[fileIndex[CurName].fileID] =
          [name |-> CurName, hash |-> CurFile.hash, by |-> Adapters[ai]]
    /\ <<CurKid, fileIndex[CurName].fileID>> \in attached

\* C12: in the first cycle after a restart and its re-import, syncFile uploads
\* nothing for a file that was uploaded with its present content before the
\* restart and whose artifact the index still tracks.
C12_RestartIdempotent ==
    [][(SyncFileStep /\ cyc.first /\ restarts > 0 /\ CurAlreadyUploaded)
          => CountOp(last'.calls, "upload") = 0]_vars

\* Pairs <<f, g>> of reported files with one basename, f from an adapter that
\* SyncFiles processes before the adapter of g.
Collisions ==
    {<<upstream[Adapters[i]][m], upstream[Adapters[j]][n], j>> :
        <<i, j, m, n>> \in
           {q \in (1..NAdapters) \X (1..NAdapters) \X (1..MaxFiles) \X (1..MaxFiles) :
               /\ q[1] < q[2]
               /\ q[3] \in DOMAIN upstream[Adapters[q[1]]]
               /\ q[4] \in DOMAIN upstream[Adapters[q[2]]]
               /\ Base(upstream[Adapters[q[1]]][q[3]].path)
                     = Base(upstream[Adapters[q[2]]][q[4]].path)}}

\* C13: when two adapters report a file with the same basename, a cycle in which
\* every fetch and every call succeeded ends with the entry under that basename
\* holding the path, hash, source and knowledge base of the later adapter's file.
C13_LastWriterWins ==
    [][(CleanupStep /\ cyc.fetched /\ cyc'.clean)
          => \A c \in Collisions :
                LET g == c[2]
                    k == Base(g.path)
                IN  /\ k \in DOMAIN fileIndex'
                    /\ fileIndex'[k].path = g.path
                    /\ fileIndex'[k].hash = g.hash
                    /\ fileIndex'[k].source = Adapters[c[3]]
                    /\ fileIndex'[k].kid = EffectiveKid(g.kid)]_vars

\* C14: in the first cycle of a first start (the index is empty), when the two
\* adapters report one file each and the two share a basename, a cycle in which
\* every fetch and every call succeeded performs two uploads if the effective
\* knowledge bases of the two files differ and one upload if they are the same.
C14_UploadsByKnowledgeBase ==
    [][(/\ CleanupStep /\ cyc.first /\ restarts = 0
        /\ cyc.fetched /\ cyc'.clean
        /\ \A a \in AdapterNames : Len(upstream[a]) <= 1)
          => \A c \in Collisions :
                cyc'.uploads = IF EffectiveKid(c[1].kid) # EffectiveKid(c[2].kid)
                               THEN 2 ELSE 1]_vars

C16_KeyIsBasename ==
    \A k \in DOMAIN fileIndex : k = Base(fileIndex[k].path)

\* The step that runs InitializeFileIndex.
InitializeStep == pc = "boot" /\ pc' = "ready"

\* Knowledge bases referenced at startup: the fallback and those of the files
\* the adapters report.
ReferencedKids == ({knowledgeID} \cup {f.kid : f \in Reported}) \ {""}

\* The path under which the listing shows artifact id.
ListedKey(id) ==
    IF dsPath THEN StoredPath(id, dsFiles[id].name) ELSE dsFiles[id].name

C18_DetachIdempotent ==
    rm.valid =>
       /\ rm.answer = 404 => ~rm.err
       /\ (~rm.wasMember /\ rm.answer \notin {500, NoAnswer}) => ~rm.err
       /\ rm.answer \notin {200, 201, 404} => rm.err

\* C18 witness: a file already removed has been removed again, the downstream
\* answered 404 and the call returned nil.
C18_Witness ==
    rm.valid /\ ~rm.wasMember /\ ~member /\ rm.answer = 404 /\ ~rm.err

\* The step in which waitForFileProcessing issues a GetFile.
ProbeStep == w.pc = "probe" /\ w'.probes = w.probes + 1

SuccessStatuses == {"processed", "completed", ""}
FailureStatuses == {"error", "failed"}

\* C19: a probe is issued only while no earlier probe read a terminal status; a
\* probe that reads processed, completed or the empty status makes the call
\* return nil; one that reads error or failed makes it return the failure; one
\* that reads any other status, or fails itself, decides nothing and, while
\* attempts remain and the context is not done, is followed by a sleep and the
\* next probe.
C19_ProbeOutcomes ==
    [][/\ ProbeStep =>
             /\ w.seen \notin SuccessStatuses \cup FailureStatuses
             /\ w'.seen \in SuccessStatuses => w'.pc = "done" /\ w'.result = "ok"
             /\ w'.seen \in FailureStatuses => w'.pc = "done" /\ w'.result = "failed"
             /\ (w'.seen \in DataStatuses \ (SuccessStatuses \cup FailureStatuses)
                   /\ w.attempt < totalAttempts)
                   => w'.pc = "sleep" /\ w'.result = "none"
             /\ w'.seen = GetFileError => w'.pc = "sleepErr" /\ w'.result = "none"
       /\ (w.pc \in {"sleep", "sleepErr"} /\ w'.slept > w.slept
             /\ w.attempt < totalAttempts)
             => w'.pc = "top" /\ w'.result = "none"
       /\ (w.pc = "top" /\ w' # w /\ ~ctxDone) => w'.pc = "probe"]_vars

\* C19 witness: the call has returned nil at its third probe, after a sleep.
C19_Witness ==
    /\ w.pc = "done" /\ w.result = "ok"
    /\ w.probes = 3 /\ w.slept > 0
    /\ w.seen = ""

\* C20: waitForFileProcessing issues at most 51 probes; when it returns the
\* timeout error it has issued exactly 51 and has not slept after the last one.
C20_TimeoutAfter51Probes ==
    /\ totalAttempts = 51
    /\ w.probes <= 51
    /\ w.result = "timeout" => w.probes = 51 /\ w.lastSleep < 51

\* A step taken by waitForFileProcessing while its context is already done.
CancelledWaitStep == ctxDone /\ w.pc \notin {"idle", "done"} /\ w' # w

\* C21: once the context is done, waitForFileProcessing completes no further
\* sleep (the one after a failed probe included), and an iteration that starts
\* with the context done issues no probe and returns the cancellation error.
C21_CancellationHonoured ==
    [][CancelledWaitStep =>
          /\ w'.slept = w.slept
          /\ w.pc = "top" => (w'.probes = w.probes /\ w'.result = "cancelled")]_vars

\* The attach calls of a call log.
AttachCalls(calls) == {i \in DOMAIN calls : calls[i].op = "attach"}

\* The syncFile that has just returned had its UploadFile call
\* waitForFileProcessing (Data.Status was "pending"), which ended with the
\* timeout error.
SyncedAfterTimeout == sf.valid /\ sf.upload.wait = "timeout"

\* C22: when the upload read "pending" and the wait timed out, UploadFile
\* returned the file with its ID and no error; syncFile then issued the attach
\* to the effective knowledge base when there is one, failed only when that
\* attach failed, and otherwise wrote the entry with the artifact's ID.
C22_TimeoutStillAttaches ==
    SyncedAfterTimeout =>
       LET kid == EffectiveKid(sf.f.kid)
           id == sf.upload.file.id
           name == Base(sf.f.path)
       IN  /\ ~sf.upload.err /\ id # ""
           /\ kid # "" => \E i \in AttachCalls(sf.calls) :
                             sf.calls[i].kb = kid /\ sf.calls[i].id = id
           /\ kid = "" => AttachCalls(sf.calls) = {}
           /\ sf.err <=> \E i \in AttachCalls(sf.calls) : ~sf.calls[i].ok
           /\ ~sf.err => /\ name \in DOMAIN sf.index
                         /\ sf.index[name].fileID = id
                         /\ sf.index[name].kid = kid

\* C22 witness: after a timed-out wait the file was attached and indexed.
C22_Witness ==
    /\ SyncedAfterTimeout
    /\ sf.upload.file.status = "pending"
    /\ ~sf.err
    /\ \E i \in AttachCalls(sf.calls) : sf.calls[i].ok
    /\ Base(sf.f.path) \in DOMAIN sf.index

\* C23: for a file with an empty knowledge ID while m.knowledgeID is empty, a
\* syncFile whose upload succeeds issues that upload and no attach (nor any
\* other call), returns nil, and records the entry under the basename with the
\* uploaded artifact's ID and an empty knowledge ID.
C23_UnboundFileStillRecorded ==
    [][(/\ SyncFileStep
        /\ CurFile.kid = "" /\ knowledgeID = ""
        /\ \E i \in DOMAIN last'.calls : last'.calls[i].op = "upload" /\ last'.calls[i].ok)
          => /\ Ops(last'.calls) = <<"upload">>
             /\ ~last'.err
             /\ last'.calls[1].id = Ids[nextId]
             /\ attached' = attached
             /\ CurName \in DOMAIN fileIndex'
             /\ fileIndex'[CurName] =
                   [path |-> CurFile.path, hash |-> CurFile.hash,
                    fileID |-> last'.calls[1].id, source |-> Adapters[ai], kid |-> ""]]_vars

\* C23 witness: such a file has just been uploaded and indexed without attach.
C23_Witness ==
    /\ last.valid /\ ~last.err /\ ~last.skipped
    /\ last.f.kid = "" /\ knowledgeID = ""
    /\ Ops(last.calls) = <<"upload">>
    /\ Base(last.f.path) \in DOMAIN fileIndex
    /\ fileIndex[Base(last.f.path)].kid = ""
    /\ fileIndex[Base(last.f.path)].fileID = last.calls[1].id

\* The FetchFiles calls of a log, in order.
FetchEvents(events) == SelectSeq(events, LAMBDA e : e.op = "fetch")

\* C24: when SyncFiles returns, FetchFiles has been called once on every
\* adapter in declared order, whatever failed before, and each successful
\* fetch is followed by one syncFile call for every file it returned, in
\* order, whatever the earlier syncFile calls of the cycle returned.
C24_ErrorsConfined ==
    lp.pc = "done" =>
       LET E == lp.events
           F == FetchEvents(E)
       IN  /\ Len(F) = NLoopAdapters
           /\ \A a \in 1..NLoopAdapters : F[a].a = a
           /\ \A p \in DOMAIN E :
                 (E[p].op = "fetch" /\ E[p].ok) =>
                    \A k \in 1..E[p].i :
                       /\ p + k \in DOMAIN E
                       /\ E[p + k].op = "sync" /\ E[p + k].a = E[p].a /\ E[p + k].i = k

\* C24 witness: the first adapter's fetch failed, the first file of the second
\* adapter failed, and the second file of that adapter and a file of the third
\* adapter were synced after that.
C24_Witness ==
    /\ lp.pc = "done"
    /\ \E p \in DOMAIN lp.events :
          lp.events[p].op = "fetch" /\ lp.events[p].a = 1 /\ ~lp.events[p].ok
    /\ \E p, q, r \in DOMAIN lp.events :
          /\ p < q /\ q < r
          /\ lp.events[p] = [op |-> "sync", a |-> 2, i |-> 1, ok |-> FALSE]
          /\ lp.events[q].op = "sync" /\ lp.events[q].a = 2 /\ lp.events[q].i = 2
          /\ lp.events[r].op = "sync" /\ lp.events[r].a = 3

\* C25: a SyncFiles call whose saveFileIndex failed returns an error.
C25_SaveFailureBubbles ==
    (lastCleanup.valid /\ ~lastCleanup.saved) => lastCleanup.err

\* C26: with the storage directory in place, NewManager on an absent index
\* file returns a manager with an empty index and no error, and on an index
\* file that exists but does not parse it returns an error.
C26_LoadAtStartup ==
    (nm.result.valid /\ nm.result.mkdirOk) =>
       /\ nm.disk = "absent" => (~nm.result.err /\ nm.result.index = {})
       /\ nm.disk \in {"garbage", "mistyped"} => nm.result.err

\* C27: once main has cancelled its context, the context of every SyncFiles
\* call still running is done, its deadline passed or not.
C27_CycleTokenDerived ==
    (cancelled /\ Running > 0) => \A deadlinePassed \in BOOLEAN : RunSyncCtxDone(deadlinePassed)

\* The files of the reachable items from item i on, in order.
RECURSIVE ReachableFiles(_, _)
ReachableFiles(items, i) ==
    IF i > Len(items) THEN <<>>
    ELSE (IF items[i].reachable THEN items[i].files ELSE <<>>) \o ReachableFiles(items, i + 1)

\* C28: FetchFiles of an adapter one of whose repositories or folders cannot
\* be fetched returns no error and the files of the remaining ones.
C28_PartialFetch ==
    (/\ ad.result.valid
     /\ \E i \in 1..MaxItems : ~ad.items[i].reachable
     /\ \E i \in 1..MaxItems : ad.items[i].reachable /\ ad.items[i].files # <<>>) =>
       /\ ~ad.result.err
       /\ ad.result.files = ReachableFiles(ad.items, 1)

\* The value the latest invocation of operation() returned.
LastOut == rt.outs[Len(rt.outs)]

\* C29: RetryWithBackoff invokes the operation at most MaxRetries+1 times; an
\* invocation follows another one only when that one returned a retryable
\* error; the call returns nil right after the first nil, the operation's
\* error right after the first error that is not retryable, and the "failed
\* after retries" error after MaxRetries+1 retryable errors.
C29_RetryBounded ==
    /\ rt.invoked <= rt.max + 1
    /\ Len(rt.outs) <= rt.invoked
    /\ \A i \in 1..(rt.invoked - 1) : IsRetryableError(rt.outs[i])
    /\ (rt.outs # <<>> /\ Len(rt.outs) = rt.invoked) =>
          /\ LastOut = NoError => (rt.pc = "done" /\ rt.result = "nil")
          /\ (LastOut # NoError /\ ~IsRetryableError(LastOut)) =>
                (rt.pc = "done" /\ rt.result = "err")
          /\ (IsRetryableError(LastOut) /\ Len(rt.outs) = rt.max + 1) =>
                (rt.pc = "done" /\ rt.result = "exhausted")
    /\ rt.result = "nil" => (rt.outs # <<>> /\ LastOut = NoError)

\* C29 witness: with MaxRetries 3 the call has given up after four retryable
\* failures.
C29_Witness ==
    /\ rt.pc = "done" /\ rt.result = "exhausted"
    /\ rt.max = MaxRetriesTried /\ rt.invoked = MaxRetriesTried + 1
    /\ \A i \in DOMAIN rt.outs : IsRetryableError(rt.outs[i])

\* A step of RetryWithBackoff from the top of an iteration.
RetryTopStep == rt.pc = "top" /\ rt' # rt /\ rt'.pc # "top"

\* C30: an iteration of RetryWithBackoff that starts with ctx done, the first
\* one included, does not invoke the operation and returns ctx.Err().
C30_CancelStopsRetry ==
    [][(RetryTopStep /\ rt.ctxDone) =>
          (rt'.invoked = rt.invoked /\ rt'.pc = "done" /\ rt'.result = "ctx")]_vars

\* C31: while main has not yet returned from InitializeFileIndex, no SyncFiles
\* call is in progress, in main or in a cron job.
C31_NoCycleBeforeReimport ==
    mainPc \in {"spawn", "initIndex"} => Running = 0

\* The adapter loop moves on to the next adapter: after a failed FetchFiles,
\* or at the end of the adapter's iteration.
FetchFailStep == pc = "adapter" /\ ai <= NAdapters /\ ai' = ai + 1 /\ faults' = faults + 1
AdapterDoneStep == pc \in {"adapter", "files"} /\ ai <= NAdapters /\ ai' = ai + 1 /\ ~FetchFailStep

\* C32: within a cycle SetLastSync runs for an adapter exactly when its
\* FetchFiles succeeded: at the end of its iteration, whatever its syncFile
\* calls returned, and not when the fetch failed; no other step of the cycle
\* touches it.
C32_LastSyncIffFetched ==
    [][/\ FetchFailStep => (lastSynced' = lastSynced /\ Adapters[ai] \notin lastSynced')
       /\ AdapterDoneStep => lastSynced' = lastSynced \cup {Adapters[ai]}
       /\ (pc \in {"adapter", "files"} /\ ai' = ai) => lastSynced' = lastSynced]_vars

\* C32 witness: the adapter's only syncFile call failed and its last sync
\* time was set all the same.
C32_Witness ==
    /\ pc = "adapter"
    /\ last.valid /\ last.err
    /\ last.source \in lastSynced

\* C33: syncFile's file is in currentFiles when the call returns, error or
\* not, and cleanupOrphanedFiles leaves every entry whose key is in
\* currentFiles as it is and detaches none of them.
C33_FailedFileStillPresent ==
    [][/\ SyncFileStep => CurName \in present'
       /\ CleanupStep =>
             \A k \in DOMAIN fileIndex \cap present :
                /\ k \in DOMAIN fileIndex' /\ fileIndex'[k] = fileIndex[k]
                /\ \A c \in lastCleanup'.calls : c.id # fileIndex[k].fileID]_vars

\* C33 witness: a cycle whose only failed call was the syncFile of a changed
\* file has ended, and the entry the same adapter wrote earlier under that
\* file's basename is still there with the old hash.
C33_Witness ==
    /\ lastCleanup.valid /\ lastCleanup.saved
    /\ \A c \in lastCleanup.calls : c.ok
    /\ cyc.done /\ ~cyc.clean /\ cyc.fetched
    /\ \E a \in AdapterNames : \E f \in Range(upstream[a]) :
          /\ Base(f.path) \in present \cap DOMAIN fileIndex
          /\ fileIndex[Base(f.path)].source = a
          /\ fileIndex[Base(f.path)].hash # f.hash

\* C34: a syncFile that finds an existing entry bound to another effective
\* knowledge base than the file's issues no detach, and a membership of the
\* entry's artifact in the entry's knowledge base is still there afterwards.
C34_MigrateKeepsOldAttachment ==
    [][(/\ SyncFileStep
        /\ last'.mk # NoKey
        /\ EffectiveKid(last'.existing.kid) # CurKid)
          => /\ CountOp(last'.calls, "detach") = 0
             /\ LET old == <<EffectiveKid(last'.existing.kid), last'.existing.fileID>>
                IN  old \in attached => old \in attached']_vars

\* C34 witness: a changed file has been uploaded and attached to its new
\* knowledge base while the old artifact is still attached to the old one.
C34_Witness ==
    /\ last.valid /\ ~last.err /\ ~last.skipped
    /\ last.mk # NoKey
    /\ EffectiveKid(last.existing.kid) # EffectiveKid(last.f.kid)
    /\ <<EffectiveKid(last.existing.kid), last.existing.fileID>> \in attached
    /\ CountOp(last.calls, "attach") = 1

\* C35: a syncFile that returns an error for a file whose existing entry is
\* bound to the file's knowledge base leaves the entry's artifact attached to
\* that knowledge base when it was attached before the call.
C35_FailedUpdateKeepsOldVersion ==
    [][(/\ SyncFileStep
        /\ last'.err
        /\ last'.mk # NoKey
        /\ EffectiveKid(last'.existing.kid) = CurKid
        /\ <<CurKid, last'.existing.fileID>> \in attached)
          => <<CurKid, last'.existing.fileID>> \in attached']_vars

\* C36: a syncFile that returns an error leaves the index exactly as it was
\* before the call.
C36_FailedSyncLeavesIndex ==
    [][(SyncFileStep /\ last'.err) => fileIndex' = fileIndex]_vars

C36_Witness ==
    /\ last.valid /\ last.err
    /\ last.mk # NoKey
    /\ CountOp(last.calls, "upload") = 1
    /\ fileIndex # << >>

\* C37: cleanupOrphanedFiles deletes an entry from the index only when no
\* detach call for that entry returned an error, so that the artifact of a
\* deleted entry is no longer attached to the entry's knowledge base.
C37_OrphanKeptOnDetachFailure ==
    [][CleanupStep =>
          \A k \in DOMAIN fileIndex \ DOMAIN fileIndex' :
             /\ \A c \in lastCleanup'.calls :
                   (c.id = fileIndex[k].fileID /\ c.kb = EffectiveKid(fileIndex[k].kid))
                      => c.ok
             /\ <<EffectiveKid(fileIndex[k].kid), fileIndex[k].fileID>> \notin attached']_vars

\* C38: at the end of a cycle in which every fetch and every call succeeded,
\* cleanupOrphanedFiles issues no detach for the artifact of an entry whose hash
\* is the hash of a file reported in the cycle.
C38_FingerprintMatchNotDetached ==
    [][(CleanupStep /\ cyc.fetched /\ cyc'.clean)
          => \A k \in DOMAIN fileIndex :
                (\E f \in Reported : f.hash = fileIndex[k].hash)
                   => \A c \in lastCleanup'.calls :
                         ~(/\ c.id = fileIndex[k].fileID
                           /\ c.kb = EffectiveKid(fileIndex[k].kid))]_vars

\* The step of InitializeFileIndex in which the listing of one knowledge base
\* failed and the listing of another succeeded.
PartialReimportStep ==
    /\ pc = "boot" /\ pc' = "ready"
    /\ cyc'.listFailed # {}
    /\ cyc'.listedOk # {}

\* C39: when the listing of one knowledge base fails during the re-import and
\* another listing succeeds, every entry of the loaded index bound to the
\* knowledge base whose listing failed is still in the index, unchanged.
C39_UnreachableKbEntriesKept ==
    [][PartialReimportStep =>
          \A k \in DOMAIN fileIndex :
             EffectiveKid(fileIndex[k].kid) \in cyc'.listFailed
                => (k \in DOMAIN fileIndex' /\ fileIndex'[k] = fileIndex[k])]_vars

\* The step of RetryWithBackoff that ends the backoff of a retry and invokes
\* operation() again.
RetryInvokeStep == rt.pc = "top" /\ rt.attempt > 0 /\ rt'.pc = "running"

\* C40: the backoff before every retry is strictly positive and is not
\* shorter than the backoff before the retry that preceded it, whatever errors
\* the operation returned.
C40_BackoffPositiveMonotone ==
    [][RetryInvokeStep =>
          /\ rt'.slept - rt.slept > 0
          /\ rt.attempt > 1 =>
                rt'.slept - rt.slept >=
                   BackoffDelay(rt.outs[Len(rt.outs) - 1], rt.attempt - 1)]_vars

====
